---- MODULE Spec2Model ----
(***************************************************************************)
(* A model of vscode-version-watcher: the notifying entry point            *)
(* (src/unnamed/part_000) and the plain entry point (src/index.ts).        *)
(*                                                                         *)
(* A JavaScript string is a tuple of one-character strings, so that        *)
(* split('.'), the comparison of strings with > and the tag filter's       *)
(* regular expression are computed character by character.  The value      *)
(* undefined is the tuple Undefined, which is no string.                   *)
(***************************************************************************)
EXTENDS Integers, Sequences, FiniteSets, TLC

(***************************************************************************)
(* Bounds of the model.                                                    *)
(***************************************************************************)
MaxRuns == 2
MaxPerPage == 2
MaxIssues == 1
MaxLineage == 4

(***************************************************************************)
(* JavaScript values.                                                      *)
(***************************************************************************)
Undefined == <<"undefined">>

Truthy(s) == s # Undefined /\ s # <<>>

\* a || b on strings
OrElse(a, b) == IF Truthy(a) THEN a ELSE b

\* UTF-16 code units of the characters that occur in version strings
Code(c) ==
  CASE c = "-" -> 45 [] c = "." -> 46
    [] c = "0" -> 48 [] c = "1" -> 49 [] c = "2" -> 50 [] c = "3" -> 51
    [] c = "4" -> 52 [] c = "5" -> 53 [] c = "6" -> 54 [] c = "7" -> 55
    [] c = "8" -> 56 [] c = "9" -> 57

IsDigit(c) == c \in {"0", "1", "2", "3", "4", "5", "6", "7", "8", "9"}

\* a > b on two strings: the first differing code unit decides, and a string
\* is greater than each of its proper prefixes
StrGT(a, b) ==
  \E k \in 1..Len(a) :
    /\ \A j \in 1..(k - 1) : j <= Len(b) /\ a[j] = b[j]
    /\ (k > Len(b) \/ (a[k] # b[k] /\ Code(a[k]) > Code(b[k])))

\* s.split('.')
RECURSIVE Split(_)
Split(s) ==
  IF \A k \in 1..Len(s) : s[k] # "."
  THEN <<s>>
  ELSE LET d == CHOOSE k \in 1..Len(s) :
                  s[k] = "." /\ \A j \in 1..(k - 1) : s[j] # "."
       IN  <<SubSeq(s, 1, d - 1)>> \o Split(SubSeq(s, d + 1, Len(s)))

\* a[k] with JavaScript's indices from 0; past the end it is undefined
At(a, k) == IF k + 1 <= Len(a) THEN a[k + 1] ELSE Undefined

\* o.key of an object: undefined when the object has no such key
Get(o, key) == IF key \in DOMAIN o THEN o[key] ELSE Undefined

\* the object literal {vscode, electron, chrome, node}
VSCode(v, e, c, n) == [vscode |-> v, electron |-> e, chrome |-> c, node |-> n]

\* JSON.stringify of a list of objects leaves out the keys whose value is
\* undefined; require() of the file gives the objects back without them
JSONstringify(l) ==
  [k \in 1..Len(l) |->
     [key \in {q \in DOMAIN l[k] : l[k][q] # Undefined} |-> l[k][key]]]

(***************************************************************************)
(* String literals.                                                        *)
(***************************************************************************)
master == <<"m", "a", "s", "t", "e", "r">>
Latest == <<"L", "a", "t", "e", "s", "t">>
NA == <<"n", "/", "a">>
Insiders == <<"-", "i", "n", "s", "i", "d", "e", "r", "s">>

\* the tag names the hosting platform lists, in the order it lists them
T2 == <<"1", ".", "2", ".", "0">>
T1 == <<"1", ".", "1", ".", "0">> \o Insiders
ApiTags == <<T2, master, T1>>

\* version strings the upstream files of the runs carry
E20 == <<"2", ".", "0">>
E17 == <<"1", ".", "7">>
C61 == <<"6", "1", ".", "0">>
PkgElectron == {Undefined, E20}
YarnrcTarget == {Undefined, E17}
ChromeHeader == {Undefined, C61}
NodeHeader ==
  { [major |-> <<"8">>, minor |-> <<"9">>, patch |-> <<"4">>],
    [major |-> <<"8">>, minor |-> <<"9">>, patch |-> Undefined] }

(***************************************************************************)
(* The state: the two files, the memory of the running process, and the    *)
(* answers of the hosting platform to the tag listing.                     *)
(***************************************************************************)
VARIABLES
  entry,            \* "notify": part_000, "plain": index.ts
  runs,             \* the number of runs started
  pc,               \* where the run is: the request it awaits, or its end
  error,            \* why the run aborted
  versionJson,      \* the file version.json
  readme,           \* the file README.md
  atStart,          \* the two files as they were when the run started
  VERSION,          \* require('../version.json')
  pages,            \* the pages of the tag listing, by uri
  uri,              \* the uri githubRequest has requested
  stack,            \* the bodies of the githubRequest calls awaiting the next page
  res,              \* the result of the innermost returned githubRequest
  vscodeVersions,   \* the candidates
  idx,              \* the position of the loop of getVersions
  versionList,      \* the fresh records
  electronVersion,
  chromeVersion,
  issued,           \* the requests issued for the candidate being resolved
  fetching,         \* the candidates console.log announced
  list,             \* the lineage handed to saveToFile
  md,               \* the report being built
  tweet             \* the message being built

files == <<versionJson, readme>>
memory == <<VERSION, pages, uri, stack, res, vscodeVersions, idx, versionList,
            electronVersion, chromeVersion, issued, fetching, list, md, tweet>>
vars == <<entry, runs, pc, error, atStart, files, memory>>

NoReport == [banner |-> "", rows |-> <<>>, issues |-> 0]

\* the process ends: its memory is gone
Exit ==
  /\ VERSION' = <<>> /\ pages' = <<>> /\ uri' = 0 /\ stack' = <<>>
  /\ res' = <<>> /\ vscodeVersions' = <<>> /\ idx' = 0 /\ versionList' = <<>>
  /\ electronVersion' = Undefined /\ chromeVersion' = Undefined
  /\ issued' = <<>> /\ fetching' = <<>> /\ list' = <<>> /\ md' = NoReport
  /\ tweet' = <<>>

\* an uncaught rejection or exception ends the run
Abort(why) ==
  /\ pc' = "aborted"
  /\ error' = why
  /\ Exit

(***************************************************************************)
(* The tag listing of the hosting platform: the tags, some of ApiTags in   *)
(* their order, served per tags a page; every page but the last carries a  *)
(* link header with a rel="next" entry among its entries.                  *)
(***************************************************************************)
RECURSIVE SubSeqs(_)
SubSeqs(s) ==
  IF s = <<>> THEN {<<>>}
  ELSE LET rest == SubSeqs(Tail(s))
       IN  rest \cup {<<Head(s)>> \o r : r \in rest}

Min(a, b) == IF a < b THEN a ELSE b

PageCount(tags, per) ==
  IF tags = <<>> THEN 1 ELSE (Len(tags) + per - 1) \div per

LinkHeader(p, k) ==
  (IF p > 1 THEN <<[url |-> p - 1, rel |-> "prev"]>> ELSE <<>>)
  \o (IF p < k THEN <<[url |-> p + 1, rel |-> "next"],
                      [url |-> k, rel |-> "last"]>> ELSE <<>>)
  \o (IF p > 1 THEN <<[url |-> 1, rel |-> "first"]>> ELSE <<>>)

TagPages(tags, per) ==
  LET k == PageCount(tags, per)
  IN  [p \in 1..k |->
        [body |-> SubSeq(tags, (p - 1) * per + 1, Min(p * per, Len(tags))),
         headers |-> IF k = 1 THEN << >>
                     ELSE [h \in {"link"} |-> LinkHeader(p, k)]]]

Listings == {TagPages(t, per) : t \in SubSeqs(ApiTags), per \in 1..MaxPerPage}

(***************************************************************************)
(* githubRequest                                                           *)
(***************************************************************************)
\* the loop over the entries of the link header: the url of the first entry
\* whose rel is "next", or 0 when there is none
NextUrl(headers) ==
  IF "link" \notin DOMAIN headers THEN 0
  ELSE LET linkAttr == headers["link"]
           nexts == {k \in 1..Len(linkAttr) : linkAttr[k].rel = "next"}
       IN  IF nexts = {} THEN 0
           ELSE linkAttr[CHOOSE k \in nexts : \A j \in nexts : k <= j].url

\* the pages of the inner call before the body of this one
ConcatAfter(body, r) == r \o <<body>>

\* [body].concat(res)
Concat(body, r) == <<body>> \o r

\* the response to the request of uri arrives and transform runs: it
\* requests the next page, or returns this page's body alone
GithubRequest ==
  /\ pc = "tags"
  /\ LET response == pages[uri]
         next == NextUrl(response.headers)
     IN  IF next # 0
         THEN /\ stack' = Append(stack, response.body)
              /\ uri' = next
              /\ UNCHANGED <<pc, res>>
         ELSE /\ res' = <<response.body>>
              /\ pc' = "tagsReturn"
              /\ UNCHANGED <<stack, uri>>
  /\ UNCHANGED <<entry, runs, error, atStart, files, VERSION, pages,
                 vscodeVersions, idx, versionList, electronVersion,
                 chromeVersion, issued, fetching, list, md, tweet>>

\* the inner githubRequest has returned res to the transform that awaited it
GithubReturn ==
  /\ pc = "tagsReturn"
  /\ stack # <<>>
  /\ res' = Concat(stack[Len(stack)], res)
  /\ stack' = SubSeq(stack, 1, Len(stack) - 1)
  /\ UNCHANGED <<entry, runs, pc, error, atStart, files, VERSION, pages, uri,
                 vscodeVersions, idx, versionList, electronVersion,
                 chromeVersion, issued, fetching, list, md, tweet>>

(***************************************************************************)
(* fetchVSCodeVersion                                                      *)
(***************************************************************************)
\* the index after the longest run of digits of s that starts at k
DigitsEnd(s, k) ==
  CHOOSE e \in k..(Len(s) + 1) :
    /\ \A j \in k..(e - 1) : IsDigit(s[j])
    /\ (e = Len(s) + 1 \/ ~IsDigit(s[e]))

\* /^\d+\.\d+\.\d+(\-insiders)?$/.test(name)
Test(name) ==
  LET a == DigitsEnd(name, 1)
  IN  /\ a > 1 /\ a <= Len(name) /\ name[a] = "."
      /\ LET b == DigitsEnd(name, a + 1)
         IN  /\ b > a + 1 /\ b <= Len(name) /\ name[b] = "."
             /\ LET c == DigitsEnd(name, b + 1)
                IN  /\ c > b + 1
                    /\ (c = Len(name) + 1
                        \/ SubSeq(name, c, Len(name)) = Insiders)

RECURSIVE Flatten(_)
Flatten(ps) == IF ps = <<>> THEN <<>> ELSE Head(ps) \o Flatten(Tail(ps))

\* the first candidate of the entry point, before the tags
Sentinel(e) == IF e = "notify" THEN <<master>> ELSE <<>>

\* the tags of all pages that pass the filter, after the sentinel
Candidates(e, r) == Sentinel(e) \o SelectSeq(Flatten(r), Test)

\* the outermost githubRequest has returned: the tags are filtered and
\* getVersions starts its loop; the listing is read no more
FetchVSCodeVersion ==
  /\ pc = "tagsReturn"
  /\ stack = <<>>
  /\ vscodeVersions' = Candidates(entry, res)
  /\ versionList' = <<>>
  /\ idx' = 1
  /\ pc' = "loop"
  /\ res' = <<>>
  /\ pages' = <<>>
  /\ uri' = 0
  /\ UNCHANGED <<entry, runs, error, atStart, files, VERSION, stack,
                 electronVersion, chromeVersion, issued, fetching, list, md,
                 tweet>>

(***************************************************************************)
(* getVersions and the resolvers it awaits                                 *)
(***************************************************************************)
\* `${x}` in a template string
Interp(x) ==
  IF x = Undefined THEN <<"u", "n", "d", "e", "f", "i", "n", "e", "d">> ELSE x

PkgUri(vscodeVersion) ==
  [repo |-> "Microsoft/vscode", ref |-> Interp(vscodeVersion),
   file |-> "package.json"]
YarnrcUri(vscodeVersion) ==
  [repo |-> "Microsoft/vscode", ref |-> Interp(vscodeVersion),
   file |-> ".yarnrc"]
ChromeUri(ev) ==
  [repo |-> "electron/electron", ref |-> <<"v">> \o Interp(ev),
   file |-> "atom/common/chrome_version.h"]
NodeUri(ev) ==
  [repo |-> "electron/electron", ref |-> <<"v">> \o Interp(ev),
   file |-> "vendor/node"]
NodeVersionUri(nodeSha) ==
  [repo |-> "electron/node", ref |-> Interp(nodeSha),
   file |-> "src/node_version.h"]

Sha == <<"a", "b", "c">>
NodeSha == {Undefined, Sha}

cachedVSersions == [k \in 1..Len(VERSION) |-> Get(VERSION[k], "vscode")]

\* a loop without the test of the cache
CachedNever(version) == FALSE

\* cachedVSersions.indexOf(version) >= 0
Cached(version) ==
  \E k \in 1..Len(cachedVSersions) : cachedVSersions[k] = version

\* a record that keeps the name of its candidate
ReleaseAsIs(e, version) == version

\* the vscode field of the record of a candidate
Release(e, version) ==
  IF e = "notify" /\ version = master THEN Latest ELSE version

\* the three matches of getNodeVersion, joined by dots
NodeVersion(h) ==
  IF h.major # Undefined /\ h.minor # Undefined /\ h.patch # Undefined
  THEN h.major \o <<".">> \o h.minor \o <<".">> \o h.patch
  ELSE Undefined

\* the loop meets a candidate the cache names: continue
LoopSkip ==
  /\ pc = "loop"
  /\ idx <= Len(vscodeVersions)
  /\ Cached(vscodeVersions[idx])
  /\ idx' = idx + 1
  /\ UNCHANGED <<entry, runs, pc, error, atStart, files, VERSION, pages, uri,
                 stack, res, vscodeVersions, versionList, electronVersion,
                 chromeVersion, issued, fetching, list, md, tweet>>

\* the loop meets a candidate the cache does not name: it is announced and
\* getElectron requests its package.json
LoopFetch ==
  /\ pc = "loop"
  /\ idx <= Len(vscodeVersions)
  /\ ~Cached(vscodeVersions[idx])
  /\ fetching' = Append(fetching, vscodeVersions[idx])
  /\ issued' = <<PkgUri(vscodeVersions[idx])>>
  /\ pc' = "pkg"
  /\ UNCHANGED <<entry, runs, error, atStart, files, VERSION, pages, uri,
                 stack, res, vscodeVersions, idx, versionList,
                 electronVersion, chromeVersion, list, md, tweet>>

\* package.json arrives; without an electronVersion .yarnrc is requested,
\* with one getElectron returns and getChromeVersion sends its request
GetElectronPkg ==
  /\ pc = "pkg"
  /\ \E ev \in PkgElectron :
       /\ electronVersion' = ev
       /\ IF ~Truthy(ev)
          THEN /\ issued' = Append(issued, YarnrcUri(vscodeVersions[idx]))
               /\ pc' = "yarnrc"
          ELSE /\ issued' = Append(issued, ChromeUri(ev))
               /\ pc' = "chrome"
  /\ UNCHANGED <<entry, runs, error, atStart, files, VERSION, pages, uri,
                 stack, res, vscodeVersions, idx, versionList, chromeVersion,
                 fetching, list, md, tweet>>

\* .yarnrc arrives; getElectron returns its target, if it has one, and
\* getChromeVersion sends its request
GetElectronYarnrc ==
  /\ pc = "yarnrc"
  /\ \E target \in YarnrcTarget :
       LET ev == IF target # Undefined THEN target ELSE electronVersion
       IN  /\ electronVersion' = ev
           /\ issued' = Append(issued, ChromeUri(ev))
  /\ pc' = "chrome"
  /\ UNCHANGED <<entry, runs, error, atStart, files, VERSION, pages, uri,
                 stack, res, vscodeVersions, idx, versionList, chromeVersion,
                 fetching, list, md, tweet>>

\* chrome_version.h arrives; getNodeVersion requests the submodule
GetChromeVersion ==
  /\ pc = "chrome"
  /\ \E cv \in ChromeHeader : chromeVersion' = cv
  /\ issued' = Append(issued, NodeUri(electronVersion))
  /\ pc' = "nodeSha"
  /\ UNCHANGED <<entry, runs, error, atStart, files, VERSION, pages, uri,
                 stack, res, vscodeVersions, idx, versionList,
                 electronVersion, fetching, list, md, tweet>>

\* the record of the candidate is pushed and the loop goes on; the
\* constants of the iteration go out of scope
Push(nodeVersion) ==
  /\ versionList' =
       Append(versionList,
              VSCode(Release(entry, vscodeVersions[idx]), electronVersion,
                     chromeVersion, nodeVersion))
  /\ idx' = idx + 1
  /\ pc' = "loop"
  /\ electronVersion' = Undefined
  /\ chromeVersion' = Undefined
  /\ issued' = <<>>

\* the submodule arrives; without a sha the node version is undefined,
\* with one node_version.h is requested
GetNodeSha ==
  /\ pc = "nodeSha"
  /\ \E nodeSha \in NodeSha :
       IF ~Truthy(nodeSha)
       THEN Push(Undefined)
       ELSE /\ issued' = Append(issued, NodeVersionUri(nodeSha))
            /\ pc' = "nodeHeader"
            /\ UNCHANGED <<versionList, idx, electronVersion, chromeVersion>>
  /\ UNCHANGED <<entry, runs, error, atStart, files, VERSION, pages, uri,
                 stack, res, vscodeVersions, fetching, list, md, tweet>>

\* node_version.h arrives
GetNodeHeader ==
  /\ pc = "nodeHeader"
  /\ \E h \in NodeHeader : Push(NodeVersion(h))
  /\ UNCHANGED <<entry, runs, error, atStart, files, VERSION, pages, uri,
                 stack, res, vscodeVersions, fetching, list, md, tweet>>

\* the cache without its head after the fresh records
LineageTrimmed(fresh, cache) ==
  fresh \o (IF cache = <<>> THEN cache ELSE Tail(cache))

\* the cache before the fresh records
LineageCacheFirst(fresh, cache) == cache \o fresh

\* versionList.concat(VERSION)
Lineage(fresh, cache) == fresh \o cache

\* the loop is over: getVersions returns the lineage to start
GetVersionsReturn ==
  /\ pc = "loop"
  /\ idx > Len(vscodeVersions)
  /\ list' = Lineage(versionList, VERSION)
  /\ pc' = "save"
  /\ UNCHANGED <<entry, runs, error, atStart, files, VERSION, pages, uri,
                 stack, res, vscodeVersions, idx, versionList,
                 electronVersion, chromeVersion, issued, fetching, md, tweet>>

(***************************************************************************)
(* saveToFile                                                              *)
(***************************************************************************)
\* a comparison with !== in place of >
MajorMinorNE(s1, s2) ==
  LET v1 == Split(s1)
      v2 == Split(s2)
  IN  \/ At(v1, 0) # At(v2, 0)
      \/ /\ Truthy(At(v1, 1))
         /\ Truthy(At(v2, 1))
         /\ At(v1, 1) # At(v2, 1)

\* ev1[0] > ev2[0] || ev1[1] && ev2[1] && ev1[1] > ev2[1]
MajorMinorGT(s1, s2) ==
  LET v1 == Split(s1)
      v2 == Split(s2)
  IN  \/ StrGT(At(v1, 0), At(v2, 0))
      \/ /\ Truthy(At(v1, 1))
         /\ Truthy(At(v2, 1))
         /\ StrGT(At(v1, 1), At(v2, 1))

\* cv1[0] > cv2[0]
MajorGT(s1, s2) == StrGT(At(Split(s1), 0), At(Split(s2), 0))

\* the three comparisons of two entries, the newer one first
PairAlert(a, b) ==
  \/ MajorMinorGT(Get(a, "electron"), Get(b, "electron"))
  \/ MajorMinorGT(Get(a, "node"), Get(b, "node"))
  \/ MajorGT(Get(a, "chrome"), Get(b, "chrome"))

\* .split('.') of undefined throws a TypeError
PairThrows(a, b) ==
  \E key \in {"electron", "node", "chrome"} :
    Get(a, key) = Undefined \/ Get(b, key) = Undefined

\* the first pair is compared when both of its electron fields are truthy
Guarded(l) ==
  /\ Len(l) > 1
  /\ Truthy(Get(l[1], "electron"))
  /\ Truthy(Get(l[2], "electron"))

\* the alert level of a lineage, or the TypeError it ends in
Classify(l) ==
  LET threw1 == Guarded(l) /\ PairThrows(l[1], l[2])
      level1 == IF Guarded(l) /\ ~threw1 /\ PairAlert(l[1], l[2])
                THEN 2 ELSE 0
      second == Len(l) > 2 /\ ~threw1 /\ level1 = 0
      threw2 == second /\ PairThrows(l[2], l[3])
      level2 == IF second /\ ~threw2 /\ PairAlert(l[2], l[3])
                THEN 1 ELSE level1
  IN  [threw |-> threw1 \/ threw2, alertLevel |-> level2]

Banner(alertLevel) ==
  CASE alertLevel = 0 -> "No change in recent release. "
    [] alertLevel = 1 -> "Notice: Change in current release. "
    [] alertLevel = 2 -> "Warning! Change in the next release. "

\* the rows of the table
Rows(l) ==
  [k \in 1..Len(l) |->
     <<Get(l[k], "vscode"), OrElse(Get(l[k], "electron"), NA),
       OrElse(Get(l[k], "node"), NA), OrElse(Get(l[k], "chrome"), NA)>>]

\* no list.shift()
ShiftNothing(l) == l

\* list.shift()
Shift(l) == IF l = <<>> THEN l ELSE Tail(l)

\* a saveToFile that writes the report before it awaits getIssues
SaveToFileWritesFirst ==
  /\ pc = "save"
  /\ entry = "notify"
  /\ LET c == Classify(list)
     IN  IF c.threw
         THEN Abort("TypeError") /\ UNCHANGED readme
         ELSE /\ md' = [banner |-> Banner(c.alertLevel), rows |-> Rows(list),
                        issues |-> 0]
              /\ readme' = md'
              /\ tweet' = Append(tweet, Banner(c.alertLevel))
              /\ pc' = "issues"
              /\ UNCHANGED <<error, VERSION, pages, uri, stack, res,
                             vscodeVersions, idx, versionList,
                             electronVersion, chromeVersion, issued,
                             fetching, list>>
  /\ UNCHANGED <<entry, runs, atStart, versionJson>>

\* part_000: the alert level, the banner and the table, up to the request
\* of getIssues
SaveToFile ==
  /\ pc = "save"
  /\ entry = "notify"
  /\ LET c == Classify(list)
     IN  IF c.threw
         THEN Abort("TypeError")
         ELSE /\ md' = [banner |-> Banner(c.alertLevel), rows |-> Rows(list),
                        issues |-> 0]
              /\ tweet' = Append(tweet, Banner(c.alertLevel))
              /\ pc' = "issues"
              /\ UNCHANGED <<error, VERSION, pages, uri, stack, res,
                             vscodeVersions, idx, versionList,
                             electronVersion, chromeVersion, issued,
                             fetching, list>>
  /\ UNCHANGED <<entry, runs, atStart, files>>

\* part_000: the issues arrive; the report is written, the head of the
\* lineage removed and the rest written as the cache
GetIssues ==
  /\ pc = "issues"
  /\ \E n \in 0..MaxIssues :
       /\ md' = [md EXCEPT !.issues = n]
       /\ tweet' = Append(tweet, n)
       /\ readme' = [md EXCEPT !.issues = n]
  /\ list' = Shift(list)
  /\ versionJson' = JSONstringify(Shift(list))
  /\ pc' = "tweet"
  /\ UNCHANGED <<entry, runs, error, atStart, VERSION, pages, uri, stack,
                 res, vscodeVersions, idx, versionList, electronVersion,
                 chromeVersion, issued, fetching>>

\* part_000: start appends the link, postTweet runs and the run is finished
PostTweet ==
  /\ pc = "tweet"
  /\ pc' = "done"
  /\ Exit
  /\ UNCHANGED <<entry, runs, error, atStart, files>>

\* index.ts: the table is written, and the lineage as the cache
SaveToFilePlain ==
  /\ pc = "save"
  /\ entry = "plain"
  /\ readme' = [banner |-> "", rows |-> Rows(list), issues |-> 0]
  /\ versionJson' = JSONstringify(list)
  /\ pc' = "done"
  /\ Exit
  /\ UNCHANGED <<entry, runs, error, atStart>>

(***************************************************************************)
(* The requests and the runs                                               *)
(***************************************************************************)
Awaiting == {"tags", "pkg", "yarnrc", "chrome", "nodeSha", "nodeHeader", "issues"}

\* the awaited request fails: the rejection is caught nowhere
RequestFails ==
  /\ pc \in Awaiting
  /\ Abort("request")
  /\ UNCHANGED <<entry, runs, atStart, files>>

\* a run starts: the cache is loaded and the tag listing requested
Start ==
  /\ pc \in {"idle", "done", "aborted"}
  /\ runs < MaxRuns
  /\ runs' = runs + 1
  /\ atStart' = files
  /\ VERSION' = versionJson
  /\ tweet' = IF entry = "notify" THEN <<"#VSCodeWatcher ">> ELSE <<>>
  /\ pages' \in Listings
  /\ uri' = 1
  /\ pc' = "tags"
  /\ error' = "none"
  /\ UNCHANGED <<entry, files, stack, res, vscodeVersions, idx, versionList,
                 electronVersion, chromeVersion, issued, fetching, list, md>>

Init ==
  /\ entry \in {"notify", "plain"}
  /\ runs = 0
  /\ pc = "idle"
  /\ error = "none"
  /\ versionJson = <<>>
  /\ readme = NoReport
  /\ atStart = <<<<>>, NoReport>>
  /\ VERSION = <<>> /\ pages = <<>> /\ uri = 0 /\ stack = <<>> /\ res = <<>>
  /\ vscodeVersions = <<>> /\ idx = 0 /\ versionList = <<>>
  /\ electronVersion = Undefined /\ chromeVersion = Undefined
  /\ issued = <<>> /\ fetching = <<>> /\ list = <<>> /\ md = NoReport
  /\ tweet = <<>>

Next ==
  \/ Start
  \/ GithubRequest
  \/ GithubReturn
  \/ FetchVSCodeVersion
  \/ LoopSkip
  \/ LoopFetch
  \/ GetElectronPkg
  \/ GetElectronYarnrc
  \/ GetChromeVersion
  \/ GetNodeSha
  \/ GetNodeHeader
  \/ GetVersionsReturn
  \/ SaveToFile
  \/ GetIssues
  \/ PostTweet
  \/ SaveToFilePlain
  \/ RequestFails

Spec == Init /\ [][Next]_vars

(***************************************************************************)
(* A second specification, of saveToFile alone: the notifying entry point  *)
(* has resolved master, found every tag in the cache and getVersions has   *)
(* returned.  The lineage is any of up to MaxLineage records whose first   *)
(* three carry any of these version strings, present or not.               *)
(***************************************************************************)
ElectronValues ==
  {Undefined, <<>>, <<"1", ".", "2">>, <<"1", ".", "1", "0">>, <<"2">>}
NodeValues == {Undefined, <<"8", ".", "9">>, <<"1", "0", ".", "2">>}
ChromeValues == {Undefined, <<"6", "1", ".", "0">>, <<"6", "1", ".", "1">>}

Digits == <<"0", "1", "2", "3", "4", "5", "6", "7", "8", "9">>

\* the release of the k-th entry of such a lineage
ReleaseAt(k) ==
  IF k = 1 THEN Latest
  ELSE IF k = 2 THEN T2
  ELSE IF k = 3 THEN T1
  ELSE <<"0", ".", Digits[k], ".", "0">>

Records(k) ==
  IF k <= 3
  THEN {VSCode(ReleaseAt(k), e, c, n) :
          e \in ElectronValues, c \in ChromeValues, n \in NodeValues}
  ELSE {VSCode(ReleaseAt(k), E20, C61, <<"8", ".", "9", ".", "4">>)}

ClassifyInit ==
  /\ entry = "notify"
  /\ runs = 1
  /\ pc = "save"
  /\ error = "none"
  /\ \E head \in Records(1) :
       \E n \in 1..MaxLineage :
         \E r2 \in (IF n >= 2 THEN Records(2) ELSE {<<>>}) :
           \E r3 \in (IF n >= 3 THEN Records(3) ELSE {<<>>}) :
             LET older == [k \in 1..(n - 1) |->
                             IF k = 1 THEN r2
                             ELSE IF k = 2 THEN r3
                             ELSE CHOOSE r \in Records(k + 1) : TRUE]
             IN  /\ versionJson = JSONstringify(older)
                 /\ VERSION = JSONstringify(older)
                 /\ versionList = <<head>>
                 /\ list = Lineage(<<head>>, JSONstringify(older))
                 /\ vscodeVersions =
                      <<master>> \o [k \in 1..(n - 1) |-> ReleaseAt(k + 1)]
                 /\ idx = n + 1
  /\ readme = NoReport
  /\ atStart = <<versionJson, NoReport>>
  /\ pages = <<>> /\ uri = 0 /\ stack = <<>> /\ res = <<>>
  /\ electronVersion = Undefined /\ chromeVersion = Undefined
  /\ issued = <<>> /\ fetching = <<master>> /\ md = NoReport
  /\ tweet = <<"#VSCodeWatcher ">>

ClassifyNext ==
  \/ SaveToFile
  \/ GetIssues
  \/ PostTweet

SpecClassify == ClassifyInit /\ [][ClassifyNext]_vars

(***************************************************************************)
(* The claims                                                              *)
(***************************************************************************)
Fields == {"electron", "node", "chrome"}

\* saveToFile of part_000 has computed the alert level of list
Classified == pc = "issues"

\* the step of saveToFile of part_000 from the lineage to the banner
Classifies == pc = "save" /\ entry = "notify"

\* the two values differ in their first component, or in their second one
\* when both have one; an absent value is left out of the comparison
Changed(s1, s2) ==
  /\ s1 # Undefined
  /\ s2 # Undefined
  /\ LET v1 == Split(s1)
         v2 == Split(s2)
     IN  \/ v1[1] # v2[1]
         \/ Len(v1) >= 2 /\ Len(v2) >= 2 /\ v1[2] # v2[2]

AnyChanged(a, b) == \E key \in Fields : Changed(Get(a, key), Get(b, key))

\* every field of every entry is present and not empty
Complete(l) ==
  \A k \in 1..Len(l) : \A key \in Fields : Truthy(Get(l[k], key))

\* C1 as the specification states it, for the lineages whose fields are all
\* present: Warning when a field of entries[0] and entries[1] is changed,
\* otherwise Notice when a field of entries[1] and entries[2] is changed,
\* otherwise None.
C1_AsClaimed ==
  (Classified /\ Complete(list)) =>
    md.banner =
      Banner(IF Len(list) >= 2 /\ AnyChanged(list[1], list[2]) THEN 2
             ELSE IF Len(list) >= 3 /\ AnyChanged(list[2], list[3]) THEN 1
             ELSE 0)

\* the newer value s1 is greater than the older value s2: in the first
\* component, as strings, or, except for the browser engine, in the second
\* component when both have a non-empty one
Grew(key, s1, s2) ==
  LET v1 == Split(s1)
      v2 == Split(s2)
  IN  \/ StrGT(v1[1], v2[1])
      \/ /\ key # "chrome"
         /\ Len(v1) >= 2 /\ v1[2] # <<>>
         /\ Len(v2) >= 2 /\ v2[2] # <<>>
         /\ StrGT(v1[2], v2[2])

AnyGrew(a, b) == \E key \in Fields : Grew(key, Get(a, key), Get(b, key))

AllPresent(a, b) ==
  \A key \in Fields : Get(a, key) # Undefined /\ Get(b, key) # Undefined

\* entries[0] and entries[1] are compared: both have a non-empty shell runtime
HeadCompared(l) ==
  /\ Len(l) >= 2
  /\ Get(l[1], "electron") \notin {Undefined, <<>>}
  /\ Get(l[2], "electron") \notin {Undefined, <<>>}

\* the outcome of the alert-level computation: a level, or -1 for a TypeError
Outcome(l) ==
  IF HeadCompared(l) /\ ~AllPresent(l[1], l[2]) THEN -1
  ELSE IF HeadCompared(l) /\ AnyGrew(l[1], l[2]) THEN 2
  ELSE IF Len(l) <= 2 THEN 0
  ELSE IF ~AllPresent(l[2], l[3]) THEN -1
  ELSE IF AnyGrew(l[2], l[3]) THEN 1
  ELSE 0

\* C1, amended: the alert-level computation ends in a TypeError when
\* entries[0] and entries[1] both have a non-empty shell runtime and one of
\* their three fields is absent, or when no Warning was found, there is a
\* third entry and a field of entries[1] or entries[2] is absent; otherwise
\* it returns Warning when entries[0] and entries[1] both have a non-empty
\* shell runtime and a field grew from entries[1] to entries[0], otherwise
\* Notice when there is a third entry and a field grew from entries[2] to
\* entries[1], otherwise None.  A field grew when the first component of the
\* newer value is greater, as a string, than that of the older value, or,
\* for the shell runtime and the JS runtime only, when both second
\* components are present and non-empty and the newer one is greater.
C1_Classify ==
  [][Classifies =>
       IF Outcome(list) = -1
       THEN pc' = "aborted" /\ error' = "TypeError"
       ELSE pc' = "issues" /\ md'.banner = Banner(Outcome(list))]_vars

\* a Notice is reached: three entries, no field grew at the head and one
\* grew behind it
C1_Witness ==
  /\ Classified
  /\ Len(list) >= 3
  /\ md.banner = Banner(1)
  /\ AnyChanged(list[1], list[2])

\* C2 as the specification states it: when one of the first three records
\* lacks its JS-runtime, browser-engine or shell-runtime field, the
\* classification completes without throwing and the run goes on to the
\* report and the cache.
C2_AbsentFieldTolerated ==
  [][(/\ Classifies
      /\ \E k \in 1..Len(list) :
           k <= 3 /\ \E key \in Fields : Get(list[k], key) = Undefined)
     => pc' = "issues"]_vars

\* the step that writes the cache: of part_000, and of index.ts
WritesNotify == pc = "issues" /\ pc' = "tweet"
WritesPlain == pc = "save" /\ pc' = "done"

\* C3 as the specification states it: in both entry points a run that
\* reaches the write of the cache with a lineage of N >= 1 entries persists
\* N - 1 of them, the lineage without its head, in unchanged order.
C3_AsClaimed ==
  [][((WritesNotify \/ WritesPlain) /\ Len(list) >= 1)
     => /\ Len(versionJson') = Len(list) - 1
        /\ versionJson' = JSONstringify(Tail(list))]_vars

\* C3, amended: the notifying entry point persists the N - 1 entries of the
\* lineage without its head, in unchanged order; the plain entry point
\* (index.ts) persists all N entries of the lineage, in unchanged order.
C3_CacheWritten ==
  [][/\ (WritesNotify /\ Len(list) >= 1)
          => /\ Len(versionJson') = Len(list) - 1
             /\ \A k \in 1..(Len(list) - 1) :
                  versionJson'[k] = JSONstringify(<<list[k + 1]>>)[1]
     /\ WritesPlain
          => /\ Len(versionJson') = Len(list)
             /\ \A k \in 1..Len(list) :
                  versionJson'[k] = JSONstringify(<<list[k]>>)[1]]_vars

\* the notifying entry point has written a cache of two entries from a
\* lineage of three
C3_Witness ==
  /\ pc = "tweet"
  /\ entry = "notify"
  /\ Len(versionList) = 3
  /\ Len(versionJson) = 2

NoDuplicates(l) ==
  \A j, k \in 1..Len(l) : j # k => Get(l[j], "vscode") # Get(l[k], "vscode")

\* C4: in every run, after any number of earlier runs, the lineage that
\* getVersions returns holds no two records of the same release.
C4_NoDuplicateRelease ==
  /\ pc \in {"save", "issues"} => NoDuplicates(list)
  /\ NoDuplicates(versionJson)

\* a later run returns a lineage of fresh and cached records, a listed tag
\* being in the cache
C4_Witness ==
  /\ pc = "save"
  /\ runs >= 2
  /\ Len(versionList) >= 1
  /\ Len(VERSION) >= 1
  /\ Len(fetching) < Len(vscodeVersions)

\* s is the end of t
IsSuffix(s, t) ==
  /\ Len(s) <= Len(t)
  /\ \A k \in 1..Len(s) : s[k] = t[Len(t) - Len(s) + k]

\* the entries of the lineage after the fresh ones
CachedPart(l, fresh) == SubSeq(l, Len(fresh) + 1, Len(l))

\* C5 as the specification states it, of the notifying entry point: the
\* tail of the lineage is the previously cached sequence without its former
\* head, and the persisted cache never grows.
C5_AsClaimed ==
  [][entry = "notify"
     => /\ pc' = "save"
             => CachedPart(list', versionList') = Shift(versionJson')
        /\ Len(versionJson') <= Len(versionJson)]_vars

\* C5, amended: in every run the entries of the lineage after the freshly
\* resolved ones are exactly the previously cached sequence, whole and
\* unchanged, so that the persisted cache never shrinks: what a run persists
\* ends with the cache the run started from.
C5_CacheKept ==
  /\ pc = "save" => CachedPart(list, versionList) = atStart[1]
  /\ pc \in {"save", "issues"} => versionJson = atStart[1]
  /\ IsSuffix(atStart[1], versionJson)

\* a run that started from a cache has persisted a longer one
C5_Witness ==
  /\ pc \in {"tweet", "done"}
  /\ Len(atStart[1]) >= 1
  /\ Len(versionJson) > Len(atStart[1])

\* the bodies of the pages of the listing, in the order of the chain
Bodies == [p \in 1..Len(pages) |-> pages[p].body]

\* C6: githubRequest on a chain of k pages, each but the last with a
\* rel="next" entry to the following one, requests the pages one after the
\* other, stops at the first page without a next entry and returns the k
\* bodies, the body of the page requested first coming first.
C6_Pagination ==
  /\ pc = "tags"
       => /\ uri \in 1..Len(pages)
          /\ Len(stack) = uri - 1
          /\ \A p \in 1..(uri - 1) :
               stack[p] = pages[p].body /\ NextUrl(pages[p].headers) = p + 1
  /\ pc = "tagsReturn"
       => /\ uri = Len(pages)
          /\ NextUrl(pages[uri].headers) = 0
          /\ \A p \in 1..(uri - 1) : NextUrl(pages[p].headers) # 0
          /\ res = SubSeq(Bodies, Len(stack) + 1, Len(pages))
  /\ (pc = "tagsReturn" /\ stack = <<>>) => res = Bodies

\* a chain of three pages has been returned
C6_Witness ==
  /\ pc = "tagsReturn"
  /\ stack = <<>>
  /\ Len(pages) = 3
  /\ Len(res) = 3

\* no shell runtime was found for the candidate being resolved
NoElectron ==
  /\ pc \in {"chrome", "nodeSha", "nodeHeader"}
  /\ ~Truthy(electronVersion)

\* C7 as the specification states it: when neither package.json nor .yarnrc
\* yields a shell runtime, no request for the browser engine or the JS
\* runtime is issued for that release.
C7_DependentsSkipped ==
  NoElectron =>
    \A k \in 1..Len(issued) :
      issued[k].repo \notin {"electron/electron", "electron/node"}

\* the names of the cache the run started from
KnownAtStart == {Get(atStart[1][k], "vscode") : k \in 1..Len(atStart[1])}

Unknown(version) == version \notin KnownAtStart

\* C8: getVersions returns the records of exactly the candidates that the
\* cache does not name, in the order of the candidates (the sentinel first,
\* then the tags in the order of the listing), followed by the whole cache
\* unchanged; a candidate the cache names is never resolved again.
C8_Lineage ==
  /\ pc \in {"loop", "pkg", "yarnrc", "chrome", "nodeSha", "nodeHeader", "save"}
       => /\ vscodeVersions \in
               {Sentinel(entry) \o t : t \in SubSeqs(SelectSeq(ApiTags, Test))}
          /\ \A k \in 1..Len(fetching) : Unknown(fetching[k])
  /\ pc = "save"
       => LET expected == SelectSeq(vscodeVersions, Unknown)
          IN  /\ fetching = expected
              /\ Len(list) = Len(expected) + Len(atStart[1])
              /\ \A k \in 1..Len(expected) :
                   /\ list[k] = versionList[k]
                   /\ Get(list[k], "vscode") = Release(entry, expected[k])
              /\ \A k \in 1..Len(atStart[1]) :
                   list[Len(expected) + k] = atStart[1][k]

\* a listed tag is in the cache with an absent field and is carried over
\* behind a fresh record
C8_Witness ==
  /\ pc = "save"
  /\ Len(versionList) >= 1
  /\ Len(fetching) < Len(vscodeVersions)
  /\ \E k \in 1..Len(list) :
       /\ k > Len(versionList)
       /\ "node" \notin DOMAIN list[k]
       /\ \E j \in 1..Len(vscodeVersions) :
            vscodeVersions[j] = Get(list[k], "vscode")

\* C9: when a request of a run fails, the run aborts and has written neither
\* the report nor the cache: both are as they were when the run started.
C9_FailedRunWritesNothing ==
  (pc = "aborted" /\ error = "request")
    => versionJson = atStart[1] /\ readme = atStart[2]

\* a run that started from a written report and cache was aborted by a
\* failed request
C9_Witness ==
  /\ pc = "aborted"
  /\ error = "request"
  /\ versionJson # <<>>
  /\ readme # NoReport

\* C10: in the notifying entry point the head of every lineage is the
\* freshly resolved record of master, named Latest, and the persisted cache
\* never holds a record named Latest.
C10_LatestNeverCached ==
  /\ (entry = "notify" /\ pc \in {"save", "issues"})
       => /\ Get(list[1], "vscode") = Latest
          /\ list[1] = versionList[1]
          /\ fetching[1] = master
          /\ \A k \in 2..Len(list) : Get(list[k], "vscode") # Latest
  /\ \A k \in 1..Len(versionJson) : Get(versionJson[k], "vscode") # Latest

\* the notifying entry point has written its second cache, tagged releases
\* all
C10_Witness ==
  /\ entry = "notify"
  /\ pc = "tweet"
  /\ runs >= 2
  /\ Len(versionJson) >= 1
  /\ Len(atStart[1]) >= 1

====
